---- MODULE Spec2Model ----
(***************************************************************************)
(* A model of cbindgen's C declarator synthesis and rendering              *)
(* (src/bindgen/cdecl.rs) and of the function IR (src/bindgen/ir/          *)
(* function.rs): Function::load, rename_for_config, swift_name.            *)
(*                                                                         *)
(* Conventions.  Option<T> is a sequence: <<>> is None, <<v>> is Some(v).  *)
(* Text written to a SourceWriter is the sequence of the strings handed to *)
(* the individual write calls, in order; a line break is the string "\n".  *)
(***************************************************************************)
EXTENDS Integers, Sequences, FiniteSets, TLC

VARIABLES
    pc,      \* where the run stands
    config,  \* the Config every call is given
    ty,      \* the Type handed to write_field / write_type
    cdecl,   \* the CDecl the last rendering built
    out,     \* the SourceWriter
    sig,     \* the signature handed to Function::load
    func,    \* the Function
    trace,   \* the stages of the last rename_for_config call
    label,   \* what swift_name returned
    renames  \* rename_for_config calls made on the Function

vars == <<pc, config, ty, cdecl, out, sig, func, trace, label, renames>>

None == <<>>

Some(v) == <<v>>

IsSome(o) == o # <<>>

Unwrap(o) == o[1]

Max(a, b) == IF a > b THEN a ELSE b

(***************************************************************************)
(* Bounds of the model.                                                    *)
(***************************************************************************)
\* Wrappers (Ptr, Array, FuncPtr) nested around a base type.
MaxDepth == 2

\* Parameters of a signature, the receiver included.
MaxArgs == 2

\* Entries of a ptrs-as-arrays annotation.
MaxEntries == 2

\* Calls of rename_for_config on one Function.
MaxCalls == 2

\* Declarators of a CDecl written as it stands.
MaxDecls == 3

(***************************************************************************)
(* Type (ir::Type), as the variants cdecl.rs matches on.                   *)
(***************************************************************************)
Primitive(name) == [k |-> "Primitive", name |-> name]

Path(name, generics, ctype) ==
    [k |-> "Path", name |-> name, generics |-> generics, ctype |-> ctype]

Ptr(t, is_const, is_nullable, is_ref) ==
    [k |-> "Ptr", ty |-> t, is_const |-> is_const,
     is_nullable |-> is_nullable, is_ref |-> is_ref]

Array(t, len) == [k |-> "Array", ty |-> t, len |-> len]

FuncPtr(ret, args, never_return) ==
    [k |-> "FuncPtr", ret |-> ret, args |-> args, never_return |-> never_return]

(***************************************************************************)
(* CDeclarator and CDecl.                                                  *)
(***************************************************************************)
DPtr(is_const, is_nullable, is_ref) ==
    [k |-> "Ptr", is_const |-> is_const, is_nullable |-> is_nullable,
     is_ref |-> is_ref]

DArray(len) == [k |-> "Array", len |-> len]

DFunc(args, layout, never_return) ==
    [k |-> "Func", args |-> args, layout |-> layout,
     never_return |-> never_return]

\* As is_ptr, a Func not taken for a pointer.
is_ptr_Ptr_only(d) == d.k = "Ptr"

is_ptr(d) == d.k \in {"Ptr", "Func"}

new ==
    [type_qualifers |-> "", type_name |-> "", type_generic_args |-> <<>>,
     declarators |-> <<>>, type_ctype |-> None, deprecated |-> None,
     panicked |-> FALSE]

\* A failed assert! or unreachable!: the construction is abandoned.
Panic(self) == [self EXCEPT !.panicked = TRUE]

RECURSIVE build_type(_, _, _, _)
RECURSIVE from_type_args(_, _)

build_type_Path(self, t, is_const, cfg) ==
    IF (is_const /\ self.type_qualifers # "") \/ self.type_name # ""
       \/ self.type_generic_args # <<>>
    THEN Panic(self)
    ELSE [self EXCEPT
            !.type_qualifers = IF is_const THEN "const" ELSE @,
            !.type_name = t.name,
            !.type_generic_args = t.generics,
            !.type_ctype = t.ctype]

build_type_Primitive(self, t, is_const, cfg) ==
    IF (is_const /\ self.type_qualifers # "") \/ self.type_name # ""
    THEN Panic(self)
    ELSE [self EXCEPT
            !.type_qualifers = IF is_const THEN "const" ELSE @,
            !.type_name = t.name]

build_type_Ptr(self, t, is_const, cfg) ==
    build_type([self EXCEPT !.declarators =
                    Append(@, DPtr(is_const, t.is_nullable, t.is_ref))],
               t.ty, t.is_const, cfg)

\* As build_type_Array, the declarator put at the front of the list.
build_type_Array_prepend(self, t, is_const, cfg) ==
    build_type([self EXCEPT !.declarators = <<DArray(t.len)>> \o @],
               t.ty, is_const, cfg)

build_type_Array(self, t, is_const, cfg) ==
    build_type([self EXCEPT !.declarators = Append(@, DArray(t.len))],
               t.ty, is_const, cfg)

build_type_FuncPtr(self, t, is_const, cfg) ==
    build_type([self EXCEPT !.declarators =
                    Append(Append(@, DPtr(FALSE, TRUE, FALSE)),
                           DFunc(from_type_args(t.args, cfg),
                                 cfg.function_args, t.never_return))],
               t.ret, FALSE, cfg)

build_type(self, t, is_const, cfg) ==
    IF self.panicked THEN self
    ELSE CASE t.k = "Path" -> build_type_Path(self, t, is_const, cfg)
           [] t.k = "Primitive" -> build_type_Primitive(self, t, is_const, cfg)
           [] t.k = "Ptr" -> build_type_Ptr(self, t, is_const, cfg)
           [] t.k = "Array" -> build_type_Array(self, t, is_const, cfg)
           [] t.k = "FuncPtr" -> build_type_FuncPtr(self, t, is_const, cfg)

from_type(t, cfg) == build_type(new, t, FALSE, cfg)

\* The argument list of a FuncPtr: each argument synthesized on its own.
from_type_args(args, cfg) ==
    [i \in 1..Len(args) |->
        [name |-> args[i].name, cdecl |-> from_type(args[i].ty, cfg)]]

(***************************************************************************)
(* SourceWriter (bindgen/writer.rs): the output stream.  spaces is the     *)
(* stack of alignment columns, line_length the column reached on the       *)
(* current line, max_line_length the longest line written so far.          *)
(***************************************************************************)
sw_new ==
    [text |-> <<>>, spaces |-> <<0>>, line_started |-> FALSE,
     line_length |-> 0, max_line_length |-> 0]

sw_spaces(o) == o.spaces[Len(o.spaces)]

\* InnerWriter::write: the pending indentation, then the text.
sw_write(o, s) ==
    LET n == IF o.line_started THEN 0 ELSE sw_spaces(o)
    IN [text |-> (o.text \o [i \in 1..n |-> " "]) \o <<s>>,
        spaces |-> o.spaces,
        line_started |-> TRUE,
        line_length |-> o.line_length + n + Len(s),
        max_line_length |->
            Max(o.max_line_length, o.line_length + n + Len(s))]

sw_new_line(o) ==
    [o EXCEPT !.text = Append(@, "\n"), !.line_started = FALSE,
              !.line_length = 0]

sw_line_length_for_align(o) ==
    IF o.line_started THEN o.line_length ELSE o.line_length + sw_spaces(o)

sw_push_set_spaces(o, n) == [o EXCEPT !.spaces = Append(@, n)]

sw_pop_tab(o) == [o EXCEPT !.spaces = SubSeq(@, 1, Len(@) - 1)]

\* The writer try_write hands to its closure: an empty buffer, measuring
\* from the current column.
sw_measurer(o) == [o EXCEPT !.text = <<>>, !.max_line_length = o.line_length]

\* The number of characters of a text.
RECURSIVE TextLen(_)
TextLen(text) ==
    IF Len(text) = 0 THEN 0
    ELSE IF Len(text) = 1 THEN Len(text[1])
    ELSE LET m == Len(text) \div 2
         IN TextLen(SubSeq(text, 1, m)) + TextLen(SubSeq(text, m + 1, Len(text)))

\* try_write, given the measurer m after the closure ran on it: refused
\* when the line is already too long or the probe exceeded max; otherwise
\* the buffer is written through.  ok tells which.
sw_try_write(o, m, max) ==
    IF o.line_length > max \/ m.max_line_length > max
    THEN [ok |-> FALSE, out |-> o]
    ELSE [ok |-> TRUE,
          out |-> [o EXCEPT !.text = @ \o m.text,
                            !.line_started = TRUE,
                            !.line_length = @ + TextLen(m.text),
                            !.max_line_length =
                                Max(@, o.line_length + TextLen(m.text))]]

(***************************************************************************)
(* The calls a rendering makes on its SourceWriter, in order.  CDecl::write *)
(* and its helpers below yield this sequence of calls; Run performs them.  *)
(***************************************************************************)
Write(s) == <<[op |-> "write", s |-> s]>>

NewLine == <<[op |-> "new_line"]>>

\* let align_length = out.line_length_for_align();
\* out.push_set_spaces(align_length);
PushAlign == <<[op |-> "push_set_spaces"]>>

PopTab == <<[op |-> "pop_tab"]>>

\* if !out.try_write(|out| probe, max) { otherwise }
TryWriteOr(probe, max, otherwise) ==
    <<[op |-> "try_write", probe |-> probe, max |-> max,
       otherwise |-> otherwise]>>

\* try_write with the rejected probe's text left on the stream.
TryWriteOr_leaky(probe, max, otherwise) ==
    <<[op |-> "try_write", probe |-> probe, max |-> max,
       otherwise |-> probe \o otherwise]>>

When(c, calls) == IF c THEN calls ELSE <<>>

RECURSIVE Concat(_)
Concat(ss) ==
    IF Len(ss) = 0 THEN <<>>
    ELSE IF Len(ss) = 1 THEN ss[1]
    ELSE LET m == Len(ss) \div 2
         IN Concat(SubSeq(ss, 1, m)) \o Concat(SubSeq(ss, m + 1, Len(ss)))

RECURSIVE Run(_, _)

Call(o, c) ==
    CASE c.op = "write" -> sw_write(o, c.s)
      [] c.op = "new_line" -> sw_new_line(o)
      [] c.op = "push_set_spaces" ->
            sw_push_set_spaces(o, sw_line_length_for_align(o))
      [] c.op = "pop_tab" -> sw_pop_tab(o)
      [] c.op = "try_write" ->
            LET t == sw_try_write(o, Run(sw_measurer(o), c.probe), c.max)
            IN IF ~t.ok THEN Run(t.out, c.otherwise) ELSE t.out

\* The calls performed one after the other, from writer o.
Run(o, calls) ==
    IF Len(calls) = 0 THEN o
    ELSE IF Len(calls) = 1 THEN Call(o, calls[1])
    ELSE LET m == Len(calls) \div 2
             o1 == Run(o, SubSeq(calls, 1, m))
         IN IF o1.line_started \in BOOLEAN
            THEN Run(o1, SubSeq(calls, m + 1, Len(calls)))
            ELSE o1

(***************************************************************************)
(* CDecl::write.                                                           *)
(***************************************************************************)
RECURSIVE write(_, _, _)
RECURSIVE write_right(_, _, _, _)

\* write_horizontal_source_list with ListType::Join(", ") over the generic
\* arguments: a type through write_type, a constant as its text.
write_generics(gs, cfg) ==
    Concat([i \in 1..Len(gs) |->
        When(i # 1, Write(", "))
        \o (IF gs[i].k = "Type" THEN write(from_type(gs[i].ty, cfg), None, cfg)
            ELSE Write(gs[i].expr))])

\* The type-specifier and type-qualifier, then the space before the
\* declarators when there is an identifier.
write_specifier(self, ident, cfg) ==
    When(self.type_qualifers # "", Write(self.type_qualifers \o " "))
    \o When(cfg.language # "Cython" /\ IsSome(self.type_ctype),
            Write(Unwrap(self.type_ctype) \o " "))
    \o Write(self.type_name)
    \o When(self.type_generic_args # <<>>,
            Write("<") \o write_generics(self.type_generic_args, cfg)
            \o Write(">"))
    \o When(IsSome(ident), Write(" "))

\* As write_left_Ptr, the two attributes taken for one another.
write_left_Ptr_swapped(d, cfg) ==
    Write(IF d.is_ref THEN "&" ELSE "*")
    \o When(d.is_const, Write("const "))
    \o When(cfg.language # "Cython",
            IF d.is_nullable /\ ~d.is_ref
            THEN When(IsSome(cfg.non_null_attribute),
                      Write(Unwrap(cfg.non_null_attribute) \o " "))
            ELSE When(~d.is_nullable /\ IsSome(cfg.nullable_attribute),
                      Write(Unwrap(cfg.nullable_attribute) \o " ")))

\* Left pass, a Ptr: the star (or &), const, then the nullability attribute.
write_left_Ptr(d, cfg) ==
    Write(IF d.is_ref THEN "&" ELSE "*")
    \o When(d.is_const, Write("const "))
    \o When(cfg.language # "Cython",
            IF ~d.is_nullable /\ ~d.is_ref
            THEN When(IsSome(cfg.non_null_attribute),
                      Write(Unwrap(cfg.non_null_attribute) \o " "))
            ELSE When(d.is_nullable /\ IsSome(cfg.nullable_attribute),
                      Write(Unwrap(cfg.nullable_attribute) \o " ")))

\* Left pass, an Array or a Func: the opening parenthesis of a group.
write_left_group(next_is_pointer) == When(next_is_pointer, Write("("))

\* Left pass: the declarators in reverse; the j-th visited is ds[n + 1 - j]
\* and the one peeked after it is ds[n - j].
write_left(ds, cfg) ==
    LET n == Len(ds)
    IN Concat([j \in 1..n |->
        LET i == n + 1 - j
            next_is_pointer == i > 1 /\ is_ptr(ds[i - 1])
        IN IF ds[i].k = "Ptr" THEN write_left_Ptr(ds[i], cfg)
           ELSE write_left_group(next_is_pointer)])

write_horizontal(cfg, args) ==
    Concat([i \in 1..Len(args) |->
        When(i # 1, Write(", "))
        \o write(args[i].cdecl, args[i].name, cfg)])

write_vertical(cfg, args) ==
    PushAlign
    \o Concat([i \in 1..Len(args) |->
          When(i # 1, Write(",") \o NewLine)
          \o write(args[i].cdecl, args[i].name, cfg)])
    \o PopTab

\* As write_args, the Auto layout keeping the text of a rejected probe.
write_args_leaky(cfg, args, layout) ==
    CASE layout = "Vertical" -> write_vertical(cfg, args)
      [] layout = "Horizontal" -> write_horizontal(cfg, args)
      [] layout = "Auto" ->
            TryWriteOr_leaky(write_horizontal(cfg, args), cfg.line_length,
                             write_vertical(cfg, args))

\* match layout
write_args(cfg, args, layout) ==
    CASE layout = "Vertical" -> write_vertical(cfg, args)
      [] layout = "Horizontal" -> write_horizontal(cfg, args)
      [] layout = "Auto" ->
            TryWriteOr(write_horizontal(cfg, args), cfg.line_length,
                       write_vertical(cfg, args))

\* Right pass, a Func up to its argument list: the closing parenthesis of
\* the group, the opening one of the list, void for an empty list in C.
write_right_Func_open(d, last_was_pointer, cfg) ==
    When(last_was_pointer, Write(")"))
    \o Write("(")
    \o When(d.args = <<>> /\ cfg.language = "C", Write("void"))

\* Right pass, a Func after its argument list.
write_right_Func_close(d, cfg) ==
    Write(")")
    \o When(d.never_return /\ cfg.language # "Cython" /\ IsSome(cfg.no_return),
            Write(" " \o Unwrap(cfg.no_return)))

\* As write_right_Func, the group after a pointer never closed.
write_right_Func_no_group(d, last_was_pointer, cfg) ==
    write_right_Func_open(d, FALSE, cfg)
    \o write_args(cfg, d.args, d.layout)
    \o write_right_Func_close(d, cfg)

write_right_Func(d, last_was_pointer, cfg) ==
    write_right_Func_open(d, last_was_pointer, cfg)
    \o write_args(cfg, d.args, d.layout)
    \o write_right_Func_close(d, cfg)

write_right_Array(d, last_was_pointer, cfg) ==
    When(last_was_pointer, Write(")")) \o Write("[" \o d.len \o "]")

\* Right pass: the declarators in order, i counting up from 1.
write_right(ds, i, last_was_pointer, cfg) ==
    IF i > Len(ds) THEN <<>>
    ELSE CASE ds[i].k = "Ptr" -> write_right(ds, i + 1, TRUE, cfg)
           [] ds[i].k = "Array" ->
                write_right_Array(ds[i], last_was_pointer, cfg)
                \o write_right(ds, i + 1, FALSE, cfg)
           [] ds[i].k = "Func" ->
                write_right_Func(ds[i], last_was_pointer, cfg)
                \o write_right(ds, i + 1, TRUE, cfg)

\* Everything before the right pass: specifier, left pass, identifier.
write_head(self, ident, cfg) ==
    write_specifier(self, ident, cfg)
    \o write_left(self.declarators, cfg)
    \o When(IsSome(ident), Write(Unwrap(ident)))

write(self, ident, cfg) ==
    write_head(self, ident, cfg) \o write_right(self.declarators, 1, FALSE, cfg)

\* write_field and write_type: from_type, then write with or without an
\* identifier.  Each yields the CDecl built and the writer after the write.
write_field(o, t, ident, cfg) ==
    LET cd == from_type(t, cfg)
    IN [cdecl |-> cd, out |-> Run(o, write(cd, Some(ident), cfg))]

write_type(o, t, cfg) ==
    LET cd == from_type(t, cfg)
    IN [cdecl |-> cd, out |-> Run(o, write(cd, None, cfg))]

(***************************************************************************)
(* Strings the code takes apart (names, paths, annotation entries) are     *)
(* sequences of characters; Join makes the text written for one.           *)
(***************************************************************************)
RECURSIVE Join(_)
Join(cs) == IF cs = <<>> THEN "" ELSE Head(cs) \o Join(Tail(cs))

starts_with(s, p) == Len(p) <= Len(s) /\ SubSeq(s, 1, Len(p)) = p

\* str::trim_start_matches with a string pattern: every leading repetition
\* of the pattern goes (an empty pattern removes nothing).
RECURSIVE trim_start_matches(_, _)
trim_start_matches(s, p) ==
    IF p # <<>> /\ starts_with(s, p)
    THEN trim_start_matches(SubSeq(s, Len(p) + 1, Len(s)), p)
    ELSE s

RECURSIVE trim_end_matches(_, _)
trim_end_matches(s, p) ==
    IF p # <<>> /\ Len(p) <= Len(s)
       /\ SubSeq(s, Len(s) - Len(p) + 1, Len(s)) = p
    THEN trim_end_matches(SubSeq(s, 1, Len(s) - Len(p)), p)
    ELSE s

\* str::trim, for the whitespace the model writes (a blank).
trim(s) == trim_end_matches(trim_start_matches(s, <<" ">>), <<" ">>)

\* str::split on one character: one part more than there are separators.
RECURSIVE split(_, _)
split(s, c) ==
    LET at == {i \in DOMAIN s : s[i] = c}
    IN IF at = {} THEN <<s>>
       ELSE LET i == CHOOSE x \in at : \A y \in at : x <= y
            IN <<SubSeq(s, 1, i - 1)>> \o split(SubSeq(s, i + 1, Len(s)), c)

(***************************************************************************)
(* RenameRule and reserved::escape (bindgen/rename.rs, bindgen/reserved.rs) *)
(***************************************************************************)
ToUpper(c) ==
    CASE c = "a" -> "A" [] c = "b" -> "B" [] c = "e" -> "E" [] c = "f" -> "F"
      [] c = "i" -> "I" [] c = "l" -> "L" [] c = "n" -> "N" [] c = "s" -> "S"
      [] c = "t" -> "T" [] c = "u" -> "U" [] OTHER -> c

ToLower(c) ==
    CASE c = "A" -> "a" [] c = "B" -> "b" [] c = "E" -> "e" [] c = "F" -> "f"
      [] c = "I" -> "i" [] c = "L" -> "l" [] c = "N" -> "n" [] c = "S" -> "s"
      [] c = "T" -> "t" [] c = "U" -> "u" [] OTHER -> c

\* RenameRule::apply(name, IdentifierType::FunctionArg).
apply(r, n) ==
    CASE r = "UpperCase" -> [i \in 1..Len(n) |-> ToUpper(n[i])]
      [] r = "LowerCase" -> [i \in 1..Len(n) |-> ToLower(n[i])]
      [] OTHER -> n

\* RenameRule::not_none.
not_none(r) == IF r = "None" THEN None ELSE Some(r)

\* The reserved words among the names the model draws.
Reserved == {<<"i", "n", "t">>}

\* reserved::escape: a reserved word gets an underscore appended.
escape(n) == IF n \in Reserved THEN Append(n, "_") ELSE n

\* Type::rename_for_config keeps the shape of a type and renames the paths
\* in it by the export table of the configuration.
RECURSIVE type_rename_for_config(_, _)
type_rename_for_config(t, cfg) ==
    CASE t.k = "Path" ->
            [t EXCEPT !.name = IF IsSome(cfg.export_prefix)
                               THEN Unwrap(cfg.export_prefix) \o @ ELSE @]
      [] t.k = "Primitive" -> t
      [] t.k \in {"Ptr", "Array"} ->
            [t EXCEPT !.ty = type_rename_for_config(@, cfg)]
      [] t.k = "FuncPtr" ->
            [t EXCEPT !.ret = type_rename_for_config(@, cfg),
                      !.args = [i \in 1..Len(@) |->
                          [@[i] EXCEPT !.ty = type_rename_for_config(@, cfg)]]]

\* Type::replace_self_with: the Self placeholder becomes the receiver path.
RECURSIVE replace_self_with(_, _)
replace_self_with(t, self_path) ==
    CASE t.k = "Path" ->
            IF t.name = "Self" THEN [t EXCEPT !.name = Join(self_path)] ELSE t
      [] t.k = "Primitive" -> t
      [] t.k \in {"Ptr", "Array"} ->
            [t EXCEPT !.ty = replace_self_with(@, self_path)]
      [] t.k = "FuncPtr" ->
            [t EXCEPT !.ret = replace_self_with(@, self_path),
                      !.args = [i \in 1..Len(@) |->
                          [@[i] EXCEPT !.ty = replace_self_with(@, self_path)]]]

(***************************************************************************)
(* ir::function: FunctionArgument, Function, Function::load.               *)
(*                                                                         *)
(* A signature is given with its types already through Type::load: Loaded  *)
(* is Ok(Some(ty)), Skipped is Ok(None) (a zero-sized type), Failed is Err. *)
(***************************************************************************)
Loaded(t) == [r |-> "Some", ty |-> t]

Skipped == [r |-> "None"]

Failed == [r |-> "Err"]

FunctionArgument(name, t, array_length) ==
    [name |-> name, ty |-> t, array_length |-> array_length]

VaList == Primitive("va_list")

self_path == Path("Self", <<>>, None)

\* As gen_self_type, is_const taken from a mutable reference.
gen_self_type_const_flipped(receiver) ==
    LET custom == IF receiver.colon_token /\ receiver.ty.r = "Some"
                  THEN receiver.ty.ty ELSE self_path
    IN IF receiver.colon_token /\ receiver.ty.r = "Err" THEN Failed
       ELSE IF ~receiver.reference THEN Loaded(custom)
       ELSE Loaded(Ptr(custom, receiver.mutability, FALSE, FALSE))

gen_self_type(receiver) ==
    LET custom == IF receiver.colon_token /\ receiver.ty.r = "Some"
                  THEN receiver.ty.ty ELSE self_path
    IN IF receiver.colon_token /\ receiver.ty.r = "Err" THEN Failed
       ELSE IF ~receiver.reference THEN Loaded(custom)
       ELSE Loaded(Ptr(custom, ~receiver.mutability, FALSE, FALSE))

\* SynFnArgHelpers::as_argument: Ok(Some(arg)), Ok(None) or Err.
as_argument(a) ==
    IF a.k = "Typed"
    THEN CASE a.ty.r = "Err" -> Failed
           [] a.ty.r = "None" -> Skipped
           [] a.pat.k = "Other" -> Failed
           [] a.ty.ty.k = "Array" -> Failed
           [] OTHER ->
                [r |-> "Some",
                 arg |-> FunctionArgument(
                            IF a.pat.k = "Wild" \/ a.ty.ty = VaList
                            THEN None ELSE Some(a.pat.ident),
                            a.ty.ty, None)]
    ELSE LET t == gen_self_type(a)
         IN IF t.r = "Err" THEN Failed
            ELSE [r |-> "Some",
                  arg |-> FunctionArgument(Some(<<"s", "e", "l", "f">>),
                                           t.ty, None)]

\* try_skip_map(as_argument): the arguments in order, those skipped left
\* out; the first error ends it.
RECURSIVE load_args(_)
load_args(inputs) ==
    IF inputs = <<>> THEN [ok |-> TRUE, args |-> <<>>]
    ELSE LET a == as_argument(Head(inputs))
             rest == load_args(Tail(inputs))
         IN IF a.r = "Err" \/ ~rest.ok THEN [ok |-> FALSE, args |-> <<>>]
            ELSE [ok |-> TRUE,
                  args |-> (IF a.r = "Some" THEN <<a.arg>> ELSE <<>>)
                           \o rest.args]

\* Function::load: Ok(Function) or Err.
load(path, self_type_path, s) ==
    LET la == load_args(s.inputs)
        args0 == la.args
                 \o (IF s.variadic
                     THEN <<FunctionArgument(None, VaList, None)>> ELSE <<>>)
        subst(t) == IF IsSome(self_type_path)
                    THEN replace_self_with(t, Unwrap(self_type_path)) ELSE t
    IN IF ~la.ok \/ s.output.r = "Err" THEN [ok |-> FALSE]
       ELSE [ok |-> TRUE,
             f |-> [path |-> path,
                    self_type_path |-> self_type_path,
                    ret |-> subst(s.output.ty),
                    args |-> [i \in 1..Len(args0) |->
                                 [args0[i] EXCEPT !.ty = subst(@)]],
                    annotations |-> s.annotations,
                    never_return |-> s.output.never_return]]

(***************************************************************************)
(* Function::rename_for_config, stage by stage.                            *)
(***************************************************************************)
\* As rules, the configured rule taken before the annotation.
rules_config_first(f, cfg) ==
    IF cfg.rename_args # "None" THEN cfg.rename_args
    ELSE IF IsSome(f.annotations.rename_all)
         THEN Unwrap(f.annotations.rename_all) ELSE "None"

\* The rule in force: the rename-all annotation, else the configured one.
rules(f, cfg) ==
    IF IsSome(f.annotations.rename_all)
    THEN Unwrap(f.annotations.rename_all) ELSE cfg.rename_args

\* As rename_args, the array length carried over.
rename_args_keep_length(args, r) ==
    [i \in 1..Len(args) |->
        FunctionArgument(IF IsSome(args[i].name)
                         THEN Some(apply(r, Unwrap(args[i].name))) ELSE None,
                         args[i].ty, args[i].array_length)]

\* Lines 162-177: under a rule every argument is built anew, its name
\* renamed and its array length gone.
rename_args(args, r) ==
    [i \in 1..Len(args) |->
        FunctionArgument(IF IsSome(args[i].name)
                         THEN Some(apply(r, Unwrap(args[i].name))) ELSE None,
                         args[i].ty, None)]

\* Lines 181-186: types renamed, reserved names escaped.
escape_args(args, cfg) ==
    [i \in 1..Len(args) |->
        [args[i] EXCEPT !.ty = type_rename_for_config(@, cfg),
                        !.name = IF IsSome(@) THEN Some(escape(Unwrap(@)))
                                 ELSE None]]

\* Line 193-196: the entry without its first and last character, split on
\* the semicolons, each part trimmed.  The slice needs two characters.
slice_panics(str_tuple) == Len(str_tuple) < 2

parts_of(str_tuple) ==
    LET inner == SubSeq(str_tuple, 2, Len(str_tuple) - 1)
        ps == split(inner, ";")
    IN [i \in 1..Len(ps) |-> trim(ps[i])]

\* Lines 192-204: the map of lengths (a later entry for a name replaces an
\* earlier one), the parts warned about, and whether the slice panicked.
RECURSIVE parse_tuples(_, _)
parse_tuples(tuples, acc) ==
    IF tuples = <<>> \/ acc.panicked THEN acc
    ELSE IF slice_panics(Head(tuples)) THEN [acc EXCEPT !.panicked = TRUE]
    ELSE LET parts == parts_of(Head(tuples))
         IN IF Len(parts) # 2
            THEN parse_tuples(Tail(tuples),
                              [acc EXCEPT !.warned = Append(@, parts)])
            ELSE parse_tuples(Tail(tuples),
                              [acc EXCEPT !.map =
                                  [n \in DOMAIN @ \cup {parts[1]} |->
                                      IF n = parts[1] THEN parts[2]
                                      ELSE @[n]]])

parse_tuples_init == [map |-> <<>>, warned |-> <<>>, panicked |-> FALSE]

map_get(map, n) == IF n \in DOMAIN map THEN Some(map[n]) ELSE None

\* As assign_lengths, the type of the argument not looked at.
assign_lengths_any_type(args, map) ==
    [i \in 1..Len(args) |->
        IF args[i].name = None THEN args[i]
        ELSE [args[i] EXCEPT
                 !.array_length = map_get(map, Unwrap(args[i].name))]]

\* Lines 206-216: every named pointer argument takes what the map holds
\* for its name, nothing when the map has no such name.
assign_lengths(args, map) ==
    [i \in 1..Len(args) |->
        IF args[i].ty.k # "Ptr" \/ args[i].name = None THEN args[i]
        ELSE [args[i] EXCEPT
                 !.array_length = map_get(map, Unwrap(args[i].name))]]

\* The Function after the call, the stages it went through, and whether
\* the call panicked (the Function then stays as the escape left it).
rename_for_config(f, cfg) ==
    LET r == not_none(rules(f, cfg))
        renamed == IF IsSome(r) THEN rename_args(f.args, Unwrap(r))
                   ELSE f.args
        escaped == escape_args(renamed, cfg)
        tuples == f.annotations.ptrs_as_arrays
        parsed == IF IsSome(tuples)
                  THEN parse_tuples(Unwrap(tuples), parse_tuples_init)
                  ELSE parse_tuples_init
        final == IF IsSome(tuples) /\ ~parsed.panicked
                 THEN assign_lengths(escaped, parsed.map) ELSE escaped
    IN [f |-> [f EXCEPT !.ret = type_rename_for_config(@, cfg),
                        !.args = final],
        trace |-> [before |-> f.args, rule |-> r, renamed |-> renamed,
                   escaped |-> escaped, warned |-> parsed.warned,
                   map |-> parsed.map],
        panicked |-> parsed.panicked]

\* As swift_name, the argument names looked at before the receiver type.
swift_name_args_first(f, cfg) ==
    LET type_name == IF IsSome(f.self_type_path)
                     THEN Unwrap(f.self_type_path) ELSE <<>>
    IN IF cfg.language = "Cython" THEN None
       ELSE IF \E i \in DOMAIN f.args : f.args[i].name = None THEN None
       ELSE IF IsSome(f.self_type_path) /\ ~starts_with(f.path, type_name)
       THEN Some(f.path)
       ELSE Some(trim_start_matches(f.path, type_name))

\* Function::swift_name: None or Some(text).
swift_name(f, cfg) ==
    LET type_name == IF IsSome(f.self_type_path)
                     THEN Unwrap(f.self_type_path) ELSE <<>>
        type_prefix == IF IsSome(f.self_type_path)
                       THEN Append(type_name, ".") ELSE <<>>
        item_name == trim_start_matches(
                        trim_start_matches(f.path, type_name), <<"_">>)
        RECURSIVE item_args(_)
        item_args(args) ==
            IF args = <<>> THEN <<>>
            ELSE Append(Unwrap(Head(args).name), ":") \o item_args(Tail(args))
    IN IF cfg.language = "Cython" THEN None
       ELSE IF IsSome(f.self_type_path) /\ ~starts_with(f.path, type_name)
       THEN Some(f.path)
       ELSE IF \E i \in DOMAIN f.args : f.args[i].name = None THEN None
       ELSE Some(type_prefix \o item_name \o <<"(">> \o item_args(f.args)
                 \o <<")">>)

(***************************************************************************)
(* cdecl: from_func_arg, build_func, from_func, write_func.                *)
(***************************************************************************)
\* As from_func_arg, the array length left aside.
from_func_arg_plain(t, array_length, cfg) == from_type(t, cfg)

from_func_arg(t, array_length, cfg) ==
    IF array_length = None THEN from_type(t, cfg)
    ELSE IF t.k = "Ptr"
    THEN build_type(new, Array(t.ty, Join(Unwrap(array_length))),
                    t.is_const, cfg)
    ELSE Panic(new)

build_func(self, f, layout, cfg) ==
    LET args == [i \in 1..Len(f.args) |->
                    [name |-> IF IsSome(f.args[i].name)
                              THEN Some(Join(Unwrap(f.args[i].name)))
                              ELSE None,
                     cdecl |-> from_func_arg(f.args[i].ty,
                                             f.args[i].array_length, cfg)]]
        pushed == [self EXCEPT
                      !.declarators = Append(@, DFunc(args, layout,
                                                      f.never_return)),
                      !.deprecated = f.annotations.deprecated]
        built == build_type(pushed, f.ret, FALSE, cfg)
    IN IF \E i \in DOMAIN args : args[i].cdecl.panicked
       THEN Panic(self) ELSE built

from_func(f, layout, cfg) == build_func(new, f, layout, cfg)

write_func(o, f, layout, cfg) ==
    LET cd == from_func(f, layout, cfg)
    IN [cdecl |-> cd,
        out |-> IF cd.panicked THEN o
                ELSE Run(o, write(cd, Some(Join(f.path)), cfg))]

(***************************************************************************)
(* Inputs: the types and configurations the model draws from.              *)
(***************************************************************************)
Bases == {Primitive("int"), Path("Foo", <<>>, Some("struct"))}

\* (is_const, is_nullable, is_ref) of the pointers drawn.
PtrKinds ==
    {<<FALSE, FALSE, FALSE>>, <<TRUE, FALSE, FALSE>>, <<FALSE, TRUE, FALSE>>,
     <<FALSE, FALSE, TRUE>>, <<FALSE, TRUE, TRUE>>}

ArrayLens == {"4", "N"}

\* (args, never_return) of the function pointers drawn.
FuncPtrKinds ==
    {<<<<>>, TRUE>>,
     <<<<[name |-> Some("x"), ty |-> Primitive("int")],
         [name |-> None,
          ty |-> Ptr(Path("Foo", <<>>, None), TRUE, FALSE, FALSE)],
         [name |-> Some("cb"),
          ty |-> FuncPtr(Primitive("int"),
                         <<[name |-> Some("y"), ty |-> Primitive("int")]>>,
                         FALSE)]>>,
       FALSE>>}

Wrap(S) ==
    {Ptr(t, k[1], k[2], k[3]) : t \in S, k \in PtrKinds}
    \cup {Array(t, l) : t \in S, l \in ArrayLens}
    \cup {FuncPtr(t, k[1], k[2]) : t \in S, k \in FuncPtrKinds}

RECURSIVE TypesUpTo(_)
TypesUpTo(n) ==
    IF n = 0 THEN Bases
    ELSE LET S == TypesUpTo(n - 1) IN S \cup Wrap(S)

Types == TypesUpTo(MaxDepth)

Languages == {"C", "Cxx", "Cython"}

\* (function.args, line_length): line_length is read by Layout::Auto only.
LayoutChoices ==
    {<<"Horizontal", 80>>, <<"Vertical", 80>>, <<"Auto", 80>>, <<"Auto", 40>>}

TypeConfigs ==
    {[language |-> l, function_args |-> lc[1], line_length |-> lc[2],
      non_null_attribute |-> nn, nullable_attribute |-> nl,
      no_return |-> Some("NORETURN"), rename_args |-> "None",
      export_prefix |-> None] :
        l \in Languages, lc \in LayoutChoices,
        nn \in {None, Some("_Nonnull")}, nl \in {None, Some("_Nullable")}}

(***************************************************************************)
(* Rendering a type: write_field(t, ident) and write_type(t).              *)
(***************************************************************************)
TypeInit ==
    /\ pc = "type"
    /\ config \in TypeConfigs
    /\ ty \in Types
    /\ cdecl = new
    /\ out = sw_new
    /\ sig = None
    /\ func = None
    /\ trace = None
    /\ label = None
    /\ renames = 0

WriteField ==
    /\ pc = "type"
    /\ \E r \in {write_field(out, ty, "f", config)} :
          /\ cdecl' = r.cdecl
          /\ out' = r.out
    /\ pc' = "field"
    /\ UNCHANGED <<config, ty, sig, func, trace, label, renames>>

WriteType ==
    /\ pc = "type"
    /\ \E r \in {write_type(out, ty, config)} :
          /\ cdecl' = r.cdecl
          /\ out' = r.out
    /\ pc' = "written"
    /\ UNCHANGED <<config, ty, sig, func, trace, label, renames>>

TypeNext == WriteField \/ WriteType

TypeSpec == TypeInit /\ [][TypeNext]_vars

(***************************************************************************)
(* Signatures.                                                             *)
(***************************************************************************)
Ident(n) == [k |-> "Ident", ident |-> n]

Wild == [k |-> "Wild"]

OtherPat == [k |-> "Other"]

Typed(pat, loaded) == [k |-> "Typed", pat |-> pat, ty |-> loaded]

Receiver(reference, mutability, colon_token, loaded) ==
    [k |-> "Receiver", reference |-> reference, mutability |-> mutability,
     colon_token |-> colon_token, ty |-> loaded]

s_a == <<"a">>

s_b == <<"b">>

s_buf == <<"b", "u", "f">>

s_int == <<"i", "n", "t">>

s_self == <<"s", "e", "l", "f">>

s_Foo == <<"F", "o", "o">>

s_bar == <<"b", "a", "r">>

s_Foo_bar == s_Foo \o <<"_">> \o s_bar

IntTy == Primitive("int")

\* &self, &mut self, self, self: Box<Self>-like (a custom type), self: ()
Receivers ==
    {Receiver(TRUE, FALSE, FALSE, Skipped),
     Receiver(TRUE, TRUE, FALSE, Skipped),
     Receiver(FALSE, FALSE, FALSE, Skipped),
     Receiver(FALSE, FALSE, TRUE, Loaded(Path("Handle", <<>>, None))),
     Receiver(FALSE, FALSE, TRUE, Skipped)}

\* a: int, _: *mut Self, ap: va_list, a zero-sized argument, a pattern that
\* is no name, an array argument
LoadArgs ==
    {Typed(Ident(s_a), Loaded(IntTy)),
     Typed(Wild, Loaded(Ptr(self_path, FALSE, TRUE, FALSE))),
     Typed(Ident(s_b), Loaded(VaList)),
     Typed(Ident(s_b), Skipped),
     Typed(OtherPat, Loaded(IntTy)),
     Typed(Ident(s_b), Loaded(Array(IntTy, "4")))}

\* buf: *mut uint8_t, a: int, b: int, int: *const int, _: &Foo
RenameArgs ==
    {Typed(Ident(s_buf), Loaded(Ptr(Primitive("uint8_t"), FALSE, TRUE, FALSE))),
     Typed(Ident(s_a), Loaded(IntTy)),
     Typed(Ident(s_b), Loaded(IntTy)),
     Typed(Ident(s_int), Loaded(Ptr(IntTy, TRUE, TRUE, FALSE))),
     Typed(Wild, Loaded(Ptr(Path("Foo", <<>>, None), TRUE, FALSE, TRUE)))}

\* No two parameters of a signature have the same name.
DistinctNames(inputs) ==
    \A i, j \in DOMAIN inputs :
        (i # j /\ inputs[i].k = "Typed" /\ inputs[j].k = "Typed"
         /\ inputs[i].pat.k = "Ident" /\ inputs[j].pat.k = "Ident")
        => inputs[i].pat.ident # inputs[j].pat.ident

RECURSIVE SeqsUpTo(_, _)
SeqsUpTo(S, n) ==
    IF n = 0 THEN {<<>>}
    ELSE LET shorter == SeqsUpTo(S, n - 1)
         IN shorter \cup {Append(q, x) : q \in shorter, x \in S}

\* The receiver, when there is one, comes first.
InputsOf(receivers, typed) ==
    {q \in SeqsUpTo(typed, MaxArgs) : DistinctNames(q)}
    \cup {<<r>> \o q : r \in receivers,
                       q \in {x \in SeqsUpTo(typed, MaxArgs - 1) :
                                 DistinctNames(x)}}

NoAnnotations ==
    [rename_all |-> None, ptrs_as_arrays |-> None, deprecated |-> None]

Output(t, never_return) ==
    [r |-> "Some", ty |-> t, never_return |-> never_return]

LoadSigs ==
    {[path |-> ps[1], self_type_path |-> ps[2], inputs |-> q,
      variadic |-> v, output |-> Output(Primitive("void"), FALSE),
      annotations |-> NoAnnotations] :
        ps \in {<<s_bar, None>>, <<s_bar, Some(s_Foo)>>,
                <<s_Foo_bar, Some(s_Foo)>>},
        q \in InputsOf(Receivers, LoadArgs), v \in BOOLEAN}

\* A method has a receiver type.
LoadSigsTyped ==
    {s \in LoadSigs :
        (s.inputs # <<>> /\ s.inputs[1].k = "Receiver")
        => IsSome(s.self_type_path)}

LoadConfigs ==
    {[language |-> l, function_args |-> "Auto", line_length |-> 40,
      non_null_attribute |-> nn, nullable_attribute |-> None,
      no_return |-> Some("NORETURN"), rename_args |-> "None",
      export_prefix |-> None] :
        l \in Languages, nn \in {None, Some("_Nonnull")}}

\* "(buf; 16)"
e_buf_16 == <<"(">> \o s_buf \o <<";", " ", "1", "6", ")">>

\* "(buf;8)"
e_buf_8 == <<"(">> \o s_buf \o <<";", "8", ")">>

\* "(buf)"
e_buf == <<"(">> \o s_buf \o <<")">>

\* "(buf;1;2)"
e_buf_1_2 == <<"(">> \o s_buf \o <<";", "1", ";", "2", ")">>

\* "(a;4)"
e_a_4 == <<"(", "a", ";", "4", ")">>

\* "", what the list [] holds
e_empty == <<>>

Entries == {e_buf_16, e_buf_8, e_buf, e_buf_1_2, e_a_4, e_empty}

\* The annotation is absent, or lists entries, none of them twice.
PtrsAsArrays ==
    {None}
    \cup {Some(q) : q \in {x \in SeqsUpTo(Entries, MaxEntries) :
                               \A i, j \in DOMAIN x : i # j => x[i] # x[j]}}

RenameSigs ==
    {[path |-> s_bar, self_type_path |-> None, inputs |-> q,
      variadic |-> FALSE, output |-> Output(IntTy, FALSE),
      annotations |-> [rename_all |-> ra, ptrs_as_arrays |-> pa,
                       deprecated |-> None]] :
        q \in InputsOf({}, RenameArgs), pa \in PtrsAsArrays,
        ra \in {None, Some("None"), Some("UpperCase")}}

RenameConfigs ==
    {[language |-> "C", function_args |-> "Horizontal", line_length |-> 80,
      non_null_attribute |-> None, nullable_attribute |-> None,
      no_return |-> None, rename_args |-> rp[1], export_prefix |-> rp[2]] :
        rp \in {<<"None", None>>, <<"LowerCase", Some("My")>>}}

(***************************************************************************)
(* A function: Function::load, then rename_for_config any number of times, *)
(* then write_func or swift_name.                                          *)
(***************************************************************************)
FnInitWith(sigs, configs) ==
    /\ pc = "sig"
    /\ sig \in sigs
    /\ config \in configs
    /\ ty = None
    /\ cdecl = new
    /\ out = sw_new
    /\ func = None
    /\ trace = None
    /\ label = None
    /\ renames = 0

Load ==
    /\ pc = "sig"
    /\ \E r \in {load(sig.path, sig.self_type_path, sig)} :
          IF r.ok
          THEN func' = r.f /\ pc' = "loaded"
          ELSE func' = None /\ pc' = "load_error"
    /\ UNCHANGED <<config, ty, cdecl, out, sig, trace, label, renames>>

RenameForConfig ==
    /\ pc = "loaded"
    /\ renames < MaxCalls
    /\ \E r \in {rename_for_config(func, config)} :
          /\ func' = r.f
          /\ trace' = r.trace
          /\ pc' = IF r.panicked THEN "rename_panicked" ELSE "loaded"
    /\ renames' = renames + 1
    /\ UNCHANGED <<config, ty, cdecl, out, sig, label>>

WriteFunc ==
    /\ pc = "loaded"
    /\ \E r \in {write_func(out, func, config.function_args, config)} :
          /\ cdecl' = r.cdecl
          /\ out' = r.out
          /\ pc' = IF r.cdecl.panicked THEN "write_panicked"
                   ELSE "func_written"
    /\ UNCHANGED <<config, ty, sig, func, trace, label, renames>>

SwiftName ==
    /\ pc = "loaded"
    /\ label' = swift_name(func, config)
    /\ pc' = "named"
    /\ UNCHANGED <<config, ty, cdecl, out, sig, func, trace, renames>>

FnNext == Load \/ RenameForConfig \/ WriteFunc \/ SwiftName

\* Signatures of every shape, no annotation, no rule.
LoadInit == FnInitWith(LoadSigsTyped, LoadConfigs)

LoadSpec == LoadInit /\ [][FnNext]_vars

\* Named and unnamed arguments under every rule and annotation.
RenameInit == FnInitWith(RenameSigs, RenameConfigs)

RenameNext == Load \/ RenameForConfig \/ WriteFunc

RenameSpec == RenameInit /\ [][RenameNext]_vars

(***************************************************************************)
(* CDecl::write on a CDecl as it stands: any list of declarators, those no *)
(* Type gives rise to included (a Func followed by an Array).              *)
(***************************************************************************)
IntDecl(ds) == [new EXCEPT !.type_name = "int", !.declarators = ds]

\* Arguments of a Func declarator: none, int x, int (*p)[4].
DeclArgs ==
    {<<>>,
     <<[name |-> Some("x"), cdecl |-> IntDecl(<<>>)]>>,
     <<[name |-> Some("p"),
        cdecl |-> IntDecl(<<DPtr(FALSE, FALSE, FALSE), DArray("4")>>)]>>}

DeclChoices ==
    {DPtr(FALSE, FALSE, FALSE), DPtr(TRUE, TRUE, TRUE), DArray("4")}
    \cup {DFunc(a, "Horizontal", FALSE) : a \in DeclArgs}
    \cup {DFunc(<<>>, "Vertical", TRUE)}

RECURSIVE DeclLists(_)
DeclLists(n) ==
    IF n = 0 THEN {<<>>}
    ELSE LET shorter == DeclLists(n - 1)
         IN shorter \cup {Append(q, d) : q \in shorter, d \in DeclChoices}

DeclConfigs ==
    {[language |-> l, function_args |-> "Auto", line_length |-> 80,
      non_null_attribute |-> None, nullable_attribute |-> nl,
      no_return |-> Some("NORETURN"), rename_args |-> "None",
      export_prefix |-> None] :
        l \in Languages, nl \in {None, Some("_Nullable")}}

DeclInit ==
    /\ pc = "decl"
    /\ config \in DeclConfigs
    /\ cdecl \in {IntDecl(ds) : ds \in DeclLists(MaxDecls)}
    /\ ty = None
    /\ out = sw_new
    /\ sig = None
    /\ func = None
    /\ trace = None
    /\ label = None
    /\ renames = 0

\* self.write(out, Some(ident), config)
WriteNamed ==
    /\ pc = "decl"
    /\ out' = Run(out, write(cdecl, Some("f"), config))
    /\ pc' = "decl_named"
    /\ UNCHANGED <<config, ty, cdecl, sig, func, trace, label, renames>>

\* self.write(out, None, config)
WriteAnonymous ==
    /\ pc = "decl"
    /\ out' = Run(out, write(cdecl, None, config))
    /\ pc' = "decl_anonymous"
    /\ UNCHANGED <<config, ty, cdecl, sig, func, trace, label, renames>>

DeclNext == WriteNamed \/ WriteAnonymous

DeclSpec == DeclInit /\ [][DeclNext]_vars

(***************************************************************************)
(* Properties of the synthesis and rendering of a type.                    *)
(***************************************************************************)
Rendered == pc \in {"field", "written"}

Count(text, tok) == Cardinality({i \in DOMAIN text : text[i] = tok})

\* The Ptr and Array wrappers of a type, outermost first.
RECURSIVE Wrappers(_)
Wrappers(t) ==
    CASE t.k = "Ptr" -> <<<<"Ptr">>>> \o Wrappers(t.ty)
      [] t.k = "Array" -> <<<<"Array", t.len>>>> \o Wrappers(t.ty)
      [] OTHER -> <<>>

RECURSIVE PtrArrayOverPrimitive(_)
PtrArrayOverPrimitive(t) ==
    \/ t.k = "Primitive"
    \/ t.k \in {"Ptr", "Array"} /\ PtrArrayOverPrimitive(t.ty)

DeclaratorKinds(ds) ==
    [i \in 1..Len(ds) |->
        IF ds[i].k = "Array" THEN <<"Array", ds[i].len>> ELSE <<ds[i].k>>]

\* C10: for a Type built only from nested Ptr and Array wrappers around a
\* Primitive, from_type yields exactly one declarator per wrapper, of the
\* wrapper's kind (an Array with its length text), outermost first, and the
\* Primitive's name as the base specifier.
C10_WrappersPreserved ==
    (Rendered /\ PtrArrayOverPrimitive(ty)) =>
        /\ DeclaratorKinds(cdecl.declarators) = Wrappers(ty)
        /\ ~cdecl.panicked

C10_Witness ==
    /\ Rendered
    /\ ty = Array(Ptr(Primitive("int"), FALSE, FALSE, FALSE), "N")
    /\ DeclaratorKinds(cdecl.declarators) = <<<<"Array", "N">>, <<"Ptr">>>>

\* The number of Ptr wrappers directly around a FuncPtr (0 when the type is
\* not Ptr ... Ptr FuncPtr).
RECURSIVE PtrsAroundFuncPtr(_)
PtrsAroundFuncPtr(t) ==
    IF t.k = "Ptr" /\ t.ty.k \in {"Ptr", "FuncPtr"}
    THEN (IF t.ty.k = "FuncPtr" THEN 1
          ELSE IF PtrsAroundFuncPtr(t.ty) > 0
               THEN 1 + PtrsAroundFuncPtr(t.ty) ELSE 0)
    ELSE 0

\* What the left pass writes for a Ptr declarator.
PtrTokens == {"*", "&", "const ", "_Nonnull ", "_Nullable "}

IdentPos == CHOOSE i \in DOMAIN out.text : out.text[i] = "f"

\* The last token before the identifier that is not part of a pointer.
GroupStart ==
    CHOOSE j \in 1..(IdentPos - 1) :
        /\ out.text[j] \notin PtrTokens
        /\ \A m \in (j + 1)..(IdentPos - 1) : out.text[m] \in PtrTokens

\* C3: a FuncPtr inside one or more Ptr wrappers, rendered with an
\* identifier, has the identifier in a group that opens with "(" followed by
\* the pointer stars (one per wrapper and one for the function pointer) and
\* closes with ")" right before the "(" of the parameter list.
C3_FuncPtrGrouped ==
    (pc = "field" /\ PtrsAroundFuncPtr(ty) > 0) =>
        /\ out.text[GroupStart] = "("
        /\ Cardinality({m \in GroupStart..IdentPos :
                            out.text[m] \in {"*", "&"}})
               = PtrsAroundFuncPtr(ty) + 1
        /\ out.text[IdentPos + 1] = ")"
        /\ out.text[IdentPos + 2] = "("

C3_Witness ==
    /\ pc = "field"
    /\ PtrsAroundFuncPtr(ty) = 1
    /\ ty.ty.args # <<>>
    /\ SubSeq(out.text, GroupStart, IdentPos + 2) = <<"(", "*", "*", "f", ")", "(">>

\* Every declarator of a CDecl, those of its arguments included.
RECURSIVE AllDeclarators(_)
AllDeclarators(cd) ==
    Concat([i \in 1..Len(cd.declarators) |->
        LET d == cd.declarators[i]
        IN <<d>> \o (IF d.k = "Func"
                     THEN Concat([a \in 1..Len(d.args) |->
                                     AllDeclarators(d.args[a].cdecl)])
                     ELSE <<>>)])

Ptrs(cd, is_nullable, is_ref) ==
    LET ds == AllDeclarators(cd)
    IN Cardinality({i \in DOMAIN ds :
          /\ ds[i].k = "Ptr"
          /\ ds[i].is_nullable = is_nullable
          /\ ds[i].is_ref = is_ref})

NonNullAttr == "_Nonnull "

NullableAttr == "_Nullable "

\* C4, as amended: when the language is not Cython, each pointer that is
\* non-nullable and not reference-flavored renders the configured non-null
\* attribute once and no nullable attribute, each nullable pointer renders
\* the configured nullable attribute once and no non-null attribute, and an
\* attribute that is not configured is not rendered.  So the non-null
\* attribute occurs once per non-nullable, non-reference pointer and the
\* nullable one once per nullable pointer.
C4_AttributePerPointer ==
    (Rendered /\ config.language # "Cython") =>
        /\ Count(out.text, NonNullAttr) =
              IF IsSome(config.non_null_attribute)
              THEN Ptrs(cdecl, FALSE, FALSE) ELSE 0
        /\ Count(out.text, NullableAttr) =
              IF IsSome(config.nullable_attribute)
              THEN Ptrs(cdecl, TRUE, FALSE) + Ptrs(cdecl, TRUE, TRUE) ELSE 0

C4_Witness ==
    /\ pc = "field"
    /\ config.language = "C"
    /\ IsSome(config.non_null_attribute)
    /\ ~IsSome(config.nullable_attribute)
    /\ ty = Ptr(Ptr(Primitive("int"), FALSE, TRUE, FALSE), TRUE, FALSE, FALSE)
    /\ out.text = <<"int", " ", "*", "const ", "*", "_Nonnull ", "f">>

\* C4 as stated: the same in every language, Cython included.
C4_AsStated ==
    Rendered =>
        /\ Count(out.text, NonNullAttr) =
              IF IsSome(config.non_null_attribute)
              THEN Ptrs(cdecl, FALSE, FALSE) ELSE 0
        /\ Count(out.text, NullableAttr) =
              IF IsSome(config.nullable_attribute)
              THEN Ptrs(cdecl, TRUE, FALSE) + Ptrs(cdecl, TRUE, TRUE) ELSE 0

\* The first Func declarator of the CDecl rendered, when only Ptr
\* declarators come before it (0 when there is none).
FirstFunc ==
    LET ds == cdecl.declarators
        S == {i \in DOMAIN ds :
                 ds[i].k = "Func" /\ \A m \in 1..(i - 1) : ds[m].k = "Ptr"}
    IN IF S = {} THEN 0 ELSE CHOOSE i \in S : TRUE

WrittenIdent == IF pc = "field" THEN Some("f") ELSE None

\* The writer when the argument list of that declarator is about to be
\* written.
AtArgs ==
    Run(sw_new,
        write_head(cdecl, WrittenIdent, config)
        \o write_right_Func_open(cdecl.declarators[FirstFunc], FirstFunc > 1,
                                 config))

ArgsWritten(layout) ==
    Run(AtArgs, write_args(config, cdecl.declarators[FirstFunc].args, layout))

\* The horizontal rendering of the argument list, continuing the current
\* line, stays within line_length.
HorizontalFits ==
    Run(sw_measurer(AtArgs),
        write_args(config, cdecl.declarators[FirstFunc].args, "Horizontal")
       ).max_line_length <= config.line_length

IsPrefix(a, b) == Len(a) <= Len(b) /\ SubSeq(b, 1, Len(a)) = a

\* C2: a Func declarator with layout Auto emits, for its argument list, the
\* text layout Horizontal emits when the horizontal rendering fits within
\* line_length and the text layout Vertical emits otherwise; that text is
\* what the rendering holds, so nothing of a rejected horizontal attempt is
\* on the stream.
C2_AutoLayout ==
    (Rendered /\ FirstFunc > 0
        /\ cdecl.declarators[FirstFunc].layout = "Auto") =>
        /\ IsPrefix(ArgsWritten("Auto").text, out.text)
        /\ ArgsWritten("Auto").text =
              IF HorizontalFits THEN ArgsWritten("Horizontal").text
              ELSE ArgsWritten("Vertical").text

\* A rejected horizontal attempt of three arguments, one of them a function
\* pointer whose own list then fits.
C2_Witness ==
    /\ pc = "field"
    /\ FirstFunc = 2
    /\ cdecl.declarators[2].layout = "Auto"
    /\ Len(cdecl.declarators[2].args) = 3
    /\ ~HorizontalFits
    /\ Count(out.text, "\n") = 2
    /\ Count(out.text, ", ") = 0

C2_WitnessFits ==
    /\ pc = "field"
    /\ FirstFunc = 2
    /\ cdecl.declarators[2].layout = "Auto"
    /\ Len(cdecl.declarators[2].args) = 3
    /\ HorizontalFits
    /\ config.line_length = 80

(***************************************************************************)
(* Properties of a function: loading, renaming, rendering, labelling.      *)
(***************************************************************************)
\* The text a sequence of writes leaves, as one string.
Joined(text) == Join(text)

IsInfix(a, b) ==
    \E k \in 0..(Len(b) - Len(a)) : SubSeq(b, k + 1, k + Len(a)) = a

\* The arguments of the Func declarator write_func built.
WrittenArgs == cdecl.declarators[1].args

\* What write emits for argument i of the function, on its own.
ArgText(i) ==
    Run(sw_new, write(WrittenArgs[i].cdecl, WrittenArgs[i].name, config)).text

HasReceiver == sig.inputs # <<>> /\ sig.inputs[1].k = "Receiver"

\* The configured non-null attribute, as write emits it after the star.
NonNullSuffix ==
    IF config.language # "Cython" /\ IsSome(config.non_null_attribute)
    THEN Unwrap(config.non_null_attribute) \o " " ELSE ""

FooPath == Path("Foo", <<>>, None)

C9_WitnessByValue ==
    /\ pc = "func_written"
    /\ HasReceiver
    /\ sig.inputs[1].colon_token
    /\ func.args[1].ty = Path("Handle", <<>>, None)

Unnamed == \E i \in DOMAIN func.args : func.args[i].name = None

\* C5 as stated: no label whenever an argument is unnamed and whenever the
\* language is Cython, whatever the function name and receiver type.
C5_AsStated ==
    (pc = "named" /\ (Unnamed \/ config.language = "Cython"))
    => label = None

\* C5: swift_name returns no label when the language is Cython.  In any
\* other language, a method whose name does not start with the name of its
\* receiver type is labelled with its own path, unnamed arguments or not;
\* every other function with an unnamed argument gets no label.
C5_NoLabel ==
    pc = "named"
    => LET foreign == IsSome(func.self_type_path)
                      /\ ~IsPrefix(Unwrap(func.self_type_path), func.path)
       IN /\ config.language = "Cython" => label = None
          /\ (config.language # "Cython" /\ foreign)
                => label = Some(func.path)
          /\ (config.language # "Cython" /\ ~foreign /\ Unnamed)
                => label = None
          /\ (config.language # "Cython" /\ ~foreign /\ ~Unnamed)
                => label # None

C5_Witness ==
    /\ pc = "named"
    /\ config.language = "C"
    /\ Unnamed
    /\ func.self_type_path = Some(s_Foo)
    /\ func.path = s_Foo_bar
    /\ Len(func.args) = 2
    /\ label = None

C5_WitnessForeign ==
    /\ pc = "named"
    /\ config.language = "C"
    /\ Unnamed
    /\ func.self_type_path = Some(s_Foo)
    /\ func.path = s_bar
    /\ label = Some(s_bar)

C5_WitnessLabel ==
    /\ pc = "named"
    /\ func.path = s_Foo_bar
    /\ label = Some(s_Foo \o <<".">> \o s_bar \o <<"(">> \o s_self
                    \o <<":">> \o s_a \o <<":", ")">>)

\* The rule rename_for_config is to apply: the rename-all annotation of the
\* function when it has one, else function.rename_args of the configuration.
EffectiveRule ==
    IF sig.annotations.rename_all # None
    THEN Unwrap(sig.annotations.rename_all) ELSE config.rename_args

Called == trace # None

Names(args) == [i \in 1..Len(args) |-> args[i].name]

\* C8: each named argument ends as the effective rule makes it, apart from
\* the others, and then escaped: a name that is a reserved word once renamed
\* gets an underscore, so that no argument ends as a reserved word, with a
\* rule or without.  The names [a, b] under UpperCase end as [A, B], and
\* write_func writes the names so made.
C8_RenameThenEscape ==
    Called
    => /\ Len(func.args) = Len(trace.before)
       /\ \A i \in DOMAIN func.args :
            LET was == trace.before[i].name
                now == func.args[i].name
            IN /\ was = None => now = None
               /\ was # None
                    => LET renamed == IF EffectiveRule = "None"
                                      THEN Unwrap(was)
                                      ELSE apply(EffectiveRule, Unwrap(was))
                       IN /\ now = Some(IF renamed \in Reserved
                                        THEN Append(renamed, "_")
                                        ELSE renamed)
                          /\ Unwrap(now) \notin Reserved
       /\ (Names(trace.before) = <<Some(s_a), Some(s_b)>>
           /\ EffectiveRule = "UpperCase")
            => Names(func.args) = <<Some(<<"A">>), Some(<<"B">>)>>
       /\ pc = "func_written"
            => \A i \in DOMAIN func.args :
                 WrittenArgs[i].name
                    = IF func.args[i].name = None THEN None
                      ELSE Some(Join(Unwrap(func.args[i].name)))

C8_Witness ==
    /\ pc = "func_written"
    /\ renames = 1
    /\ sig.annotations.rename_all = Some("UpperCase")
    /\ config.rename_args = "LowerCase"
    /\ Names(trace.before) = <<Some(s_a), Some(s_b)>>
    /\ Joined(out.text) = "int bar(int A, int B)"

C8_WitnessKeyword ==
    /\ Called
    /\ \E i \in DOMAIN func.args :
         /\ trace.before[i].name = Some(s_int)
         /\ trace.rule = Some("LowerCase")
         /\ func.args[i].name = Some(<<"i", "n", "t", "_">>)

C8_WitnessUnescaped ==
    /\ Called
    /\ \E i \in DOMAIN func.args :
         /\ trace.before[i].name = Some(s_int)
         /\ func.args[i].name = Some(<<"I", "N", "T">>)

\* The entries of the ptrs-as-arrays annotation, none when it is absent.
EntryList ==
    IF sig.annotations.ptrs_as_arrays = None THEN <<>>
    ELSE Unwrap(sig.annotations.ptrs_as_arrays)

Semicolons(e) == Cardinality({i \in DOMAIN e : e[i] = ";"})

\* An entry of the form (name;length): two parts around one semicolon.
WellFormed(e) ==
    /\ Len(e) >= 2
    /\ e[1] = "("
    /\ e[Len(e)] = ")"
    /\ Semicolons(e) = 1

SemicolonAt(e) == CHOOSE i \in DOMAIN e : e[i] = ";"

PairName(e) == trim(SubSeq(e, 2, SemicolonAt(e) - 1))

PairLength(e) == trim(SubSeq(e, SemicolonAt(e) + 1, Len(e) - 1))

\* The length the annotation gives the name n: that of the last pair for n.
Assigns(n, l) ==
    \E k \in DOMAIN EntryList :
        /\ WellFormed(EntryList[k])
        /\ PairName(EntryList[k]) = n
        /\ PairLength(EntryList[k]) = l
        /\ \A j \in DOMAIN EntryList :
             (j > k /\ WellFormed(EntryList[j]))
             => PairName(EntryList[j]) # n

\* C6: when a rule other than None is in force, the rename step leaves no
\* argument with an array length, named or not, renamed or not; the lengths
\* are still gone after the escaping; and when the call is over an argument
\* has a length only if it is a named pointer and the annotation gives its
\* name that length.
C6_RenameClears ==
    (Called /\ EffectiveRule # "None")
    => /\ trace.rule = Some(EffectiveRule)
       /\ \A i \in DOMAIN trace.renamed :
            trace.renamed[i].array_length = None
       /\ \A i \in DOMAIN trace.escaped :
            trace.escaped[i].array_length = None
       /\ \A i \in DOMAIN func.args :
            func.args[i].array_length # None
            => /\ func.args[i].ty.k = "Ptr"
               /\ func.args[i].name # None
               /\ Assigns(Unwrap(func.args[i].name),
                          Unwrap(func.args[i].array_length))

C6_Witness ==
    /\ Called
    /\ EffectiveRule # "None"
    /\ \E i, j \in DOMAIN trace.before :
         /\ trace.before[i].array_length # None
         /\ trace.before[i].name = trace.renamed[i].name
         /\ trace.renamed[i].array_length = None
         /\ trace.before[j].name = None
    /\ \E i \in DOMAIN func.args : func.args[i].array_length # None

\* The function as Function::load made it.
AsLoaded == load(sig.path, sig.self_type_path, sig).f

RECURSIVE RenamedTimes(_, _)
RenamedTimes(f, n) ==
    IF n = 0 THEN f ELSE RenamedTimes(rename_for_config(f, config).f, n - 1)

\* The arguments write_func would have built had the function carried no
\* ptrs-as-arrays annotation.
Unannotated ==
    from_func(RenamedTimes([AsLoaded EXCEPT
                               !.annotations.ptrs_as_arrays = None], renames),
              config.function_args, config).declarators[1].args

\* Some entry, well formed or not, starts with the name n.
NamedInAnnotation(n) ==
    \E k \in DOMAIN EntryList :
        Len(EntryList[k]) >= 2 /\ parts_of(EntryList[k])[1] = n

WrittenAsArray16(i) ==
    /\ WrittenArgs[i].cdecl.declarators = <<DArray("16")>>
    /\ Joined(ArgText(i)) = "uint8_t buf[16]"
    /\ IsInfix(ArgText(i), out.text)

\* C1 as stated: with (buf; 16) in the annotation, the pointer argument buf
\* is written T buf[16] and the arguments the annotation does not name are
\* written as without it.
C1_AsStated ==
    (pc = "func_written" /\ renames >= 1
     /\ \E k \in DOMAIN EntryList : EntryList[k] = e_buf_16)
    => \A i \in DOMAIN func.args :
         /\ (AsLoaded.args[i].name = Some(s_buf)
             /\ AsLoaded.args[i].ty.k = "Ptr")
              => WrittenAsArray16(i)
         /\ (AsLoaded.args[i].name = None
             \/ ~NamedInAnnotation(Unwrap(AsLoaded.args[i].name)))
              => WrittenArgs[i] = Unannotated[i]

\* C1: with (buf; 16) the last pair for buf in the annotation, a pointer
\* argument that is still named buf once renamed and escaped is written
\* T buf[16], an Array declarator of length 16 and no star for the pointer;
\* an argument that has no name, or whose name once renamed and escaped
\* starts no entry of the annotation, is written as without the annotation.
C1_ArrayOverride ==
    (pc = "func_written" /\ renames >= 1)
    => LET plain == Unannotated
       IN \A i \in DOMAIN func.args :
            /\ (func.args[i].name = Some(s_buf) /\ func.args[i].ty.k = "Ptr"
                /\ Assigns(s_buf, <<"1", "6">>))
                 => WrittenAsArray16(i)
            /\ (func.args[i].name = None
                \/ ~NamedInAnnotation(Unwrap(func.args[i].name)))
                 => WrittenArgs[i] = plain[i]

C1_Witness ==
    /\ pc = "func_written"
    /\ renames = 1
    /\ EntryList = <<e_buf_16>>
    /\ Names(func.args) = <<Some(s_buf), Some(<<"i", "n", "t", "_">>)>>
    /\ Joined(out.text) = "int bar(uint8_t buf[16], const int *int_)"

C1_WitnessRenamed ==
    /\ pc = "func_written"
    /\ EntryList = <<e_buf_16>>
    /\ Joined(out.text) = "int bar(uint8_t *BUF)"

C1_WitnessLast ==
    /\ pc = "func_written"
    /\ EntryList = <<e_buf_16, e_buf_8>>
    /\ Joined(out.text) = "int bar(uint8_t buf[8])"

\* An entry that does not split into exactly two parts on the semicolon.
Malformed(e) == Semicolons(e) # 1

HasMalformed == \E k \in DOMAIN EntryList : Malformed(EntryList[k])

\* The name a malformed entry starts with.
NamedInMalformed(n) ==
    \E k \in DOMAIN EntryList :
        /\ Malformed(EntryList[k])
        /\ Len(EntryList[k]) >= 2
        /\ parts_of(EntryList[k])[1] = n

\* What is to come of the malformed entries: each one warned about, the
\* argument one names left without a length (unless a pair names it too)
\* and written as without the annotation, every pair applied.
MalformedSkipped ==
    /\ Len(trace.warned)
         = Cardinality({k \in DOMAIN EntryList : Malformed(EntryList[k])})
    /\ \A i \in DOMAIN func.args :
         LET a == func.args[i]
         IN /\ (a.name # None /\ NamedInMalformed(Unwrap(a.name))
                /\ \A l \in {PairLength(EntryList[k]) :
                               k \in {x \in DOMAIN EntryList :
                                         WellFormed(EntryList[x])}} :
                       ~Assigns(Unwrap(a.name), l))
                 => /\ a.array_length = None
                    /\ pc = "func_written"
                         => WrittenArgs[i] = Unannotated[i]
            /\ (a.name # None /\ a.ty.k = "Ptr")
                 => \A l \in {PairLength(EntryList[k]) :
                                k \in {x \in DOMAIN EntryList :
                                          WellFormed(EntryList[x])}} :
                       Assigns(Unwrap(a.name), l)
                       => a.array_length = Some(l)

\* C7 as stated: an annotation with a malformed entry does not keep
\* rename_for_config from completing; the entry is warned about and skipped.
C7_AsStated ==
    (Called /\ HasMalformed)
    => /\ pc # "rename_panicked"
       /\ MalformedSkipped

TooShort == \E k \in DOMAIN EntryList : Len(EntryList[k]) < 2

\* C7: a malformed entry of two characters or more is warned about and
\* skipped, as stated; an entry of fewer than two characters makes
\* rename_for_config panic, the arguments renamed and escaped but no
\* length assigned.
C7_SkippedOrPanic ==
    Called
    => /\ TooShort <=> pc = "rename_panicked"
       /\ (HasMalformed /\ ~TooShort) => MalformedSkipped
       /\ TooShort => func.args = trace.escaped

C7_Witness ==
    /\ pc = "rename_panicked"
    /\ EntryList = <<e_buf_16, e_empty>>
    /\ Names(func.args) = <<Some(s_buf)>>
    /\ func.args[1].array_length = None

C7_WitnessSkipped ==
    /\ pc = "func_written"
    /\ Called
    /\ EntryList = <<e_buf, e_a_4>>
    /\ Len(trace.warned) = 1
    /\ Joined(out.text) = "int bar(uint8_t *buf, int a)"

C7_WitnessBoth ==
    /\ pc = "func_written"
    /\ Called
    /\ EntryList = <<e_buf_1_2, e_buf_16>>
    /\ Len(trace.warned) = 1
    /\ Joined(out.text) = "int bar(uint8_t buf[16])"

(***************************************************************************)
(* The nullability attribute of a reference-flavored pointer.              *)
(***************************************************************************)
\* What a Ptr declarator whose first write is at position i of the text
\* writes after its star or & and its const: the position of the next token.
AfterPtr(i) ==
    IF i + 1 <= Len(out.text) /\ out.text[i + 1] = "const "
    THEN i + 2 ELSE i + 1

\* The attribute, if any, the pointer written at position i carries.
AttrOf(i) ==
    IF AfterPtr(i) <= Len(out.text)
       /\ out.text[AfterPtr(i)] \in {NonNullAttr, NullableAttr}
    THEN Some(out.text[AfterPtr(i)]) ELSE None

\* The pointers written as & that carry the nullable attribute.
NullableRefs ==
    Cardinality({i \in DOMAIN out.text :
                    out.text[i] = "&" /\ AttrOf(i) = Some(NullableAttr)})

\* C11 as stated: under Cython neither attribute is written at all, and in
\* every language a pointer written as & (is_ref) carries neither attribute,
\* nullable or not, whatever attributes are configured.
C11_AsStated ==
    (pc \in {"field", "written"})
    => /\ config.language = "Cython"
            => /\ Count(out.text, NonNullAttr) = 0
               /\ Count(out.text, NullableAttr) = 0
       /\ \A i \in DOMAIN out.text : out.text[i] = "&" => AttrOf(i) = None

\* C11: under Cython neither attribute is written at all.  In the other
\* languages a pointer written as & never carries the non-null attribute,
\* and it carries the nullable attribute exactly when it is nullable and
\* that attribute is configured.
C11_RefAttribute ==
    (pc \in {"field", "written"})
    => /\ config.language = "Cython"
            => /\ Count(out.text, NonNullAttr) = 0
               /\ Count(out.text, NullableAttr) = 0
       /\ \A i \in DOMAIN out.text :
            out.text[i] = "&" => AttrOf(i) # Some(NonNullAttr)
       /\ Count(out.text, "&")
            = Ptrs(cdecl, FALSE, TRUE) + Ptrs(cdecl, TRUE, TRUE)
       /\ config.language # "Cython"
            => NullableRefs = IF IsSome(config.nullable_attribute)
                              THEN Ptrs(cdecl, TRUE, TRUE) ELSE 0

C11_Witness ==
    /\ pc = "field"
    /\ config.language = "C"
    /\ config.nullable_attribute = Some("_Nullable")
    /\ ty = Ptr(Primitive("int"), FALSE, TRUE, TRUE)
    /\ out.text = <<"int", " ", "&", "_Nullable ", "f">>

C11_WitnessCython ==
    /\ pc = "field"
    /\ config.language = "Cython"
    /\ config.nullable_attribute = Some("_Nullable")
    /\ config.non_null_attribute = Some("_Nonnull")
    /\ ty = Ptr(Ptr(Primitive("int"), FALSE, TRUE, TRUE), FALSE, FALSE, FALSE)
    /\ Count(out.text, NullableAttr) = 0

C11_WitnessNonNullRef ==
    /\ pc = "field"
    /\ config.language = "C"
    /\ config.non_null_attribute = Some("_Nonnull")
    /\ ty = Ptr(Primitive("int"), FALSE, FALSE, TRUE)
    /\ out.text = <<"int", " ", "&", "f">>

(***************************************************************************)
(* The grouping parentheses of a list of declarators.                      *)
(***************************************************************************)
Ds == cdecl.declarators

\* Declarator i is an Array or a Func that comes right after a Ptr or Func.
Grouped(i) ==
    /\ Ds[i].k \in {"Array", "Func"}
    /\ i > 1
    /\ Ds[i - 1].k \in {"Ptr", "Func"}

NumGrouped == Cardinality({i \in DOMAIN Ds : Grouped(i)})

IdentAt == CHOOSE i \in DOMAIN out.text : out.text[i] = "f"

BeforeIdent == SubSeq(out.text, 1, IdentAt - 1)

AfterIdent == SubSeq(out.text, IdentAt + 1, Len(out.text))

Only(text, toks) == SelectSeq(text, LAMBDA t : t \in toks)

\* No argument of a Func of the list has parentheses or brackets of its own.
PlainArgs ==
    \A i \in DOMAIN Ds :
        Ds[i].k = "Func"
        => \A a \in DOMAIN Ds[i].args : Ds[i].args[a].cdecl.declarators = <<>>

\* What is to stand before the identifier: the declarators last to first, a
\* star or & for a Ptr, an opening parenthesis for a grouped Array or Func.
LeftMarks ==
    LET n == Len(Ds)
    IN Concat([j \in 1..n |->
          LET i == n + 1 - j
          IN IF Ds[i].k = "Ptr"
             THEN <<IF Ds[i].is_ref THEN "&" ELSE "*">>
             ELSE IF Grouped(i) THEN <<"(">> ELSE <<>>])

\* What is to stand after it: the declarators first to last, for an Array
\* its brackets and for a Func its parameter list, each with a closing
\* parenthesis before it when the declarator is grouped.
RightMarks ==
    Concat([i \in 1..Len(Ds) |->
        IF Ds[i].k = "Ptr" THEN <<>>
        ELSE (IF Grouped(i) THEN <<")">> ELSE <<>>)
             \o (IF Ds[i].k = "Array"
                 THEN <<"[" \o Ds[i].len \o "]">> ELSE <<"(", ")">>)])

\* C12: whatever the list of declarators, write opens a group for a
\* declarator exactly when it closes one for it, namely when the declarator
\* is an Array or a Func and the one before it is a Ptr or a Func: the
\* opening parentheses before the identifier and the closing ones after it
\* stand where those declarators are, as many of the one as of the other,
\* and all the parentheses written pair up.
C12_GroupsBalanced ==
    (pc \in {"decl_named", "decl_anonymous"})
    => /\ Count(out.text, "(") = Count(out.text, ")")
       /\ pc = "decl_named"
            => /\ Count(BeforeIdent, "(") = NumGrouped
               /\ Count(AfterIdent, ")") - Count(AfterIdent, "(") = NumGrouped
               /\ Only(BeforeIdent, {"*", "&", "("}) = LeftMarks
               /\ PlainArgs
                    => Only(AfterIdent, {"(", ")", "[4]"}) = RightMarks

C12_Witness ==
    /\ pc = "decl_named"
    /\ config.language = "Cxx"
    /\ Ds = <<DFunc(<<>>, "Horizontal", FALSE), DArray("4")>>
    /\ NumGrouped = 1
    /\ Joined(out.text) = "int (f())[4]"

C12_WitnessNested ==
    /\ pc = "decl_named"
    /\ config.language = "C"
    /\ Len(Ds) = 3
    /\ NumGrouped = 2
    /\ ~PlainArgs
    /\ Ds[1].k = "Ptr"

(***************************************************************************)
(* Array lengths and the types that carry them.                            *)
(***************************************************************************)
\* Some entry of the annotation is a pair for the name n.
PairFor(n) ==
    \E k \in DOMAIN EntryList :
        WellFormed(EntryList[k]) /\ PairName(EntryList[k]) = n

\* C13: a Function made by Function::load and taken through rename_for_config
\* any number of times, under any rule and annotation, has an array length
\* only on arguments of a Ptr type; so from_func_arg never comes to its
\* unreachable! and write_func does not panic: every argument is written,
\* one with a length as an array and the others as their type stands.
C13_LengthOnlyOnPtr ==
    (pc \in {"loaded", "rename_panicked", "func_written", "write_panicked"})
    => /\ \A i \in DOMAIN func.args :
            func.args[i].array_length # None => func.args[i].ty.k = "Ptr"
       /\ pc # "write_panicked"
       /\ pc = "func_written"
            => /\ ~cdecl.panicked
               /\ Len(WrittenArgs) = Len(func.args)
               /\ \A i \in DOMAIN func.args :
                    /\ ~WrittenArgs[i].cdecl.panicked
                    /\ func.args[i].array_length # None
                         => /\ WrittenArgs[i].cdecl.declarators # <<>>
                            /\ WrittenArgs[i].cdecl.declarators[1]
                                 = DArray(Join(Unwrap(
                                      func.args[i].array_length)))
                    /\ func.args[i].array_length = None
                         => WrittenArgs[i].cdecl
                              = from_type(func.args[i].ty, config)

C13_Witness ==
    /\ pc = "func_written"
    /\ renames = 2
    /\ EntryList = <<e_buf_16, e_a_4>>
    /\ Names(func.args) = <<Some(s_buf), Some(s_a)>>
    /\ PairFor(s_a)
    /\ func.args[2].ty.k = "Primitive"
    /\ func.args[2].array_length = None
    /\ func.args[1].array_length = Some(<<"1", "6">>)
    /\ Joined(out.text) = "int bar(uint8_t buf[16], int a)"

C13_WitnessRenamed ==
    /\ pc = "func_written"
    /\ renames = 1
    /\ EntryList = <<e_a_4>>
    /\ EffectiveRule = "LowerCase"
    /\ Names(func.args) = <<Some(s_a), None>>
    /\ Joined(out.text) = "int bar(int a, const MyFoo&)"

====
